---- MODULE Spec2Model ----
(***************************************************************************)
(* A model of scrape_year_in_llms.py: the scraper of the yearly "Year in   *)
(* LLMs" posts.  Text is a sequence of one-character strings, a document   *)
(* is the pre-order list of its elements, a URL is a record of its parts.  *)
(* The pure functions (categorize_content, extract_dates, extract_links,   *)
(* extract_headings_and_sections) are operators; scrape_year and main are  *)
(* the actions of the orchestrator.                                        *)
(***************************************************************************)
EXTENDS Integers, Sequences, FiniteSets, TLC

VARIABLES
    call,               \* a direct call of one pure function: its arguments
    ret,                \* ... and what it returned
    argv,               \* main: the parsed command line (years, verify_links)
    site,               \* the web: what a GET of each year's post answers
    net,                \* the web: how HEAD requests are answered
    pc,                 \* main / scrape_year: the statement about to run
    yi,                 \* main: index in years of the year being processed
    url,                \* scrape_year: local variable url
    html,               \* scrape_year: local variable html
    soup,               \* scrape_year: the parsed document
    title,              \* scrape_year: local variable title
    links,              \* scrape_year: local variable links
    sections,           \* scrape_year: local variable sections
    events,             \* scrape_year: local variable events
    unique_urls,        \* scrape_year: local variable unique_urls
    vi,                 \* scrape_year: index of the verification loop
    link_verification,  \* scrape_year: local variable link_verification
    data,               \* main: what scrape_year returned
    results,            \* main: local variable results (year -> YearResult)
    files,              \* the output directory (file name -> document)
    requests,           \* every HTTP request issued so far, in order
    clock               \* datetime.now()

pureVars == <<call, ret>>
mainVars == <<argv, site, net, pc, yi, url, html, soup, title, links, sections,
              events, unique_urls, vi, link_verification, data, results, files,
              requests, clock>>
vars == <<call, ret, argv, site, net, pc, yi, url, html, soup, title, links,
          sections, events, unique_urls, vi, link_verification, data, results,
          files, requests, clock>>

\* Python's None, where a text, a record or a list is expected
NoText == <<"<none>">>
NoCall == [fn |-> "none"]
NoRet == [done |-> FALSE]
NoDoc == [parsed |-> FALSE]
NoUrl == [scheme |-> "<none>"]
NoHtml == [missing |-> TRUE]
NoData == [none |-> TRUE]
NoArgs == [years |-> <<>>, verify_links |-> FALSE]

(***************************************************************************)
(* Text                                                                    *)
(***************************************************************************)
UpperCase == <<"A", "B", "C", "D", "E", "F", "G", "H", "I", "J", "K", "L", "M",
               "N", "O", "P", "Q", "R", "S", "T", "U", "V", "W", "X", "Y", "Z">>
LowerCase == <<"a", "b", "c", "d", "e", "f", "g", "h", "i", "j", "k", "l", "m",
               "n", "o", "p", "q", "r", "s", "t", "u", "v", "w", "x", "y", "z">>
Digits == <<"0", "1", "2", "3", "4", "5", "6", "7", "8", "9">>

\* str.lower() of the upper-case letters
UpperToLower ==
    [c \in {UpperCase[i] : i \in 1..Len(UpperCase)} |->
        LowerCase[CHOOSE i \in 1..Len(UpperCase) : UpperCase[i] = c]]

\* one character of str.lower()
LowerChar(c) == IF c \in DOMAIN UpperToLower THEN UpperToLower[c] ELSE c

\* str.lower()
Lower(s) == [i \in 1..Len(s) |-> LowerChar(s[i])]

DigitSet == {Digits[i] : i \in 1..Len(Digits)}
IsDigit(c) == c \in DigitSet
IsSpace(c) == c = " "

\* the `in` operator on strings: needle occurs in hay
Contains(hay, needle) ==
    \E i \in 0..(Len(hay) - Len(needle)) :
        \A j \in 1..Len(needle) : hay[i + j] = needle[j]

\* str.strip(): the text without its leading and trailing whitespace
Strip(s) ==
    LET keep == {i \in 1..Len(s) : ~IsSpace(s[i])}
    IN  IF keep = {} THEN <<>>
        ELSE LET lo == CHOOSE i \in keep : \A j \in keep : i <= j
                 hi == CHOOSE i \in keep : \A j \in keep : j <= i
             IN  SubSeq(s, lo, hi)

RECURSIVE Concat(_)
\* ''.join(parts)
Concat(parts) ==
    IF parts = <<>> THEN <<>> ELSE Head(parts) \o Concat(Tail(parts))

RECURSIVE JoinSpace(_)
\* ' '.join(parts)
JoinSpace(parts) ==
    IF parts = <<>> THEN <<>>
    ELSE IF Len(parts) = 1 THEN parts[1]
    ELSE parts[1] \o <<" ">> \o JoinSpace(Tail(parts))

\* the sequences over S of length 0..n
SeqUpTo(S, n) == UNION {[1..k -> S] : k \in 0..n}

\* the subsequence of s whose elements satisfy Keep
SelectIdx(s, idx) ==
    LET keep == {i \in 1..Len(s) : i \in idx}
        nth(n) == CHOOSE i \in keep : Cardinality({j \in keep : j < i}) = n - 1
    IN  [n \in 1..Cardinality(keep) |-> s[nth(n)]]

(***************************************************************************)
(* categorize_content                                                      *)
(***************************************************************************)
ModelsKeywords ==
    << <<"g", "p", "t">>,
       <<"c", "l", "a", "u", "d", "e">>,
       <<"l", "l", "a", "m", "a">>,
       <<"g", "e", "m", "i", "n", "i">>,
       <<"m", "i", "s", "t", "r", "a", "l">>,
       <<"q", "w", "e", "n">>,
       <<"d", "e", "e", "p", "s", "e", "e", "k">>,
       <<"m", "o", "d", "e", "l">>,
       <<"p", "a", "r", "a", "m", "e", "t", "e", "r">> >>

ToolsKeywords ==
    << <<"t", "o", "o", "l">>,
       <<"c", "l", "i">>,
       <<"a", "p", "i">>,
       <<"c", "o", "d", "e">>,
       <<"a", "p", "p">>,
       <<"p", "l", "u", "g", "i", "n">>,
       <<"e", "x", "t", "e", "n", "s", "i", "o", "n">>,
       <<"l", "i", "b", "r", "a", "r", "y">>,
       <<"s", "d", "k">> >>

ConceptsKeywords ==
    << <<"c", "o", "n", "c", "e", "p", "t">>,
       <<"t", "e", "r", "m">>,
       <<"c", "o", "i", "n", "e", "d">>,
       <<"d", "e", "f", "i", "n", "i", "t", "i", "o", "n">>,
       <<"p", "a", "r", "a", "d", "i", "g", "m">>,
       <<"p", "a", "t", "t", "e", "r", "n">>,
       <<"m", "e", "t", "h", "o", "d", "o", "l", "o", "g", "y">> >>

PricingKeywords ==
    << <<"$">>,
       <<"p", "r", "i", "c", "e">>,
       <<"c", "o", "s", "t">>,
       <<"s", "u", "b", "s", "c", "r", "i", "p", "t", "i", "o", "n">>,
       <<"r", "e", "v", "e", "n", "u", "e">>,
       <<"m", "i", "l", "l", "i", "o", "n">>,
       <<"b", "i", "l", "l", "i", "o", "n">> >>

CompaniesKeywords ==
    << <<"o", "p", "e", "n", "a", "i">>,
       <<"a", "n", "t", "h", "r", "o", "p", "i", "c">>,
       <<"g", "o", "o", "g", "l", "e">>,
       <<"m", "e", "t", "a">>,
       <<"m", "i", "c", "r", "o", "s", "o", "f", "t">>,
       <<"a", "l", "i", "b", "a", "b", "a">>,
       <<"a", "m", "a", "z", "o", "n">> >>

ResearchKeywords ==
    << <<"r", "e", "s", "e", "a", "r", "c", "h">>,
       <<"p", "a", "p", "e", "r">>,
       <<"s", "t", "u", "d", "y">>,
       <<"b", "e", "n", "c", "h", "m", "a", "r", "k">>,
       <<"l", "e", "a", "d", "e", "r", "b", "o", "a", "r", "d">>,
       <<"c", "o", "m", "p", "e", "t", "i", "t", "i", "o", "n">>,
       <<"o", "l", "y", "m", "p", "i", "a", "d">> >>

\* any(kw in text_lower for kw in keywords)
AnyKeyword(text_lower, keywords) ==
    \E k \in 1..Len(keywords) : Contains(text_lower, keywords[k])

\* the six keyword tests and the default, on the lower-cased text
CategoriesFrom(text_lower) ==
    LET c1 == IF AnyKeyword(text_lower, ModelsKeywords) THEN <<"models">> ELSE <<>>
        c2 == IF AnyKeyword(text_lower, ToolsKeywords)
              THEN Append(c1, "tools") ELSE c1
        c3 == IF AnyKeyword(text_lower, ConceptsKeywords)
              THEN Append(c2, "concepts") ELSE c2
        c4 == IF AnyKeyword(text_lower, PricingKeywords)
              THEN Append(c3, "pricing") ELSE c3
        c5 == IF AnyKeyword(text_lower, CompaniesKeywords)
              THEN Append(c4, "companies") ELSE c4
        categories == IF AnyKeyword(text_lower, ResearchKeywords)
                      THEN Append(c5, "research") ELSE c5
    IN  IF categories # <<>> THEN categories ELSE <<"concepts">>

\* a plausible bug: the keywords are looked for in the text as given
categorize_content_NoLower(text) == CategoriesFrom(text)

categorize_content(text) == CategoriesFrom(Lower(text))

(***************************************************************************)
(* The state in which main is not running (a direct call of a function).   *)
(***************************************************************************)
MainIdle ==
    /\ argv = NoArgs /\ site = <<>> /\ net = "none" /\ pc = "idle" /\ yi = 0
    /\ url = NoUrl /\ html = NoHtml /\ soup = NoDoc /\ title = NoText
    /\ links = <<>> /\ sections = <<>> /\ events = <<>>
    /\ unique_urls = <<>> /\ vi = 0 /\ link_verification = <<>>
    /\ data = NoData /\ results = <<>> /\ files = <<>> /\ requests = <<>>
    /\ clock = 0

(***************************************************************************)
(* categorize_content called on its own                                    *)
(***************************************************************************)
MaxCatFrags == 3

CatFragments ==
    { <<"G", "P", "T">>,
      <<"A", "p", "p", "l", "e">>,
      <<"d", "e", "t", "e", "r", "m", "i", "n", "e">>,
      <<"$">>,
      <<"M", "e", "t", "a">>,
      <<"s", "t", "u", "d", "y">>,
      <<" ">>,
      <<"s", "u", "n">> }

CatTexts(n) == {Concat(fs) : fs \in SeqUpTo(CatFragments, n)}

InitCat ==
    /\ call \in {[fn |-> "categorize_content", text |-> t] : t \in CatTexts(MaxCatFrags)}
    /\ ret = NoRet
    /\ MainIdle

CallCategorize ==
    /\ call.fn = "categorize_content"
    /\ ~ret.done
    /\ ret' = [done |-> TRUE, value |-> categorize_content(call.text)]
    /\ UNCHANGED <<call, mainVars>>

SpecCat == InitCat /\ [][CallCategorize]_vars

CategoryOrder ==
    <<"models", "tools", "concepts", "pricing", "companies", "research">>

KeywordsOf(c) ==
    CASE c = "models" -> ModelsKeywords
      [] c = "tools" -> ToolsKeywords
      [] c = "concepts" -> ConceptsKeywords
      [] c = "pricing" -> PricingKeywords
      [] c = "companies" -> CompaniesKeywords
      [] c = "research" -> ResearchKeywords

\* one of the keywords of category c occurs in the lower-cased text
KeywordOccurs(c, text) ==
    LET kws == KeywordsOf(c)
        low == Lower(text)
    IN  \E k \in 1..Len(kws) : \E i \in 1..Len(low) :
            /\ i + Len(kws[k]) - 1 <= Len(low)
            /\ SubSeq(low, i, i + Len(kws[k]) - 1) = kws[k]

Range(s) == {s[i] : i \in 1..Len(s)}

\* C1: categorize_content returns a non-empty list without repeats of
\* categories among the six, in the fixed order models, tools, concepts,
\* pricing, companies, research; a category other than "concepts" is in it
\* exactly when one of its keywords occurs in the lower-cased text, and the
\* list is exactly <<"concepts">> when no keyword of any list occurs.
C1_Categories ==
    (call.fn = "categorize_content" /\ ret.done) =>
        LET r == ret.value
        IN  /\ r # <<>>
            /\ \A i \in 1..Len(r) : \E k \in 1..Len(CategoryOrder) :
                   r[i] = CategoryOrder[k]
            /\ \A i, j \in 1..Len(r) : i < j =>
                   \E k, l \in 1..Len(CategoryOrder) :
                       k < l /\ r[i] = CategoryOrder[k] /\ r[j] = CategoryOrder[l]
            /\ \A c \in Range(CategoryOrder) \ {"concepts"} :
                   (c \in Range(r)) <=> KeywordOccurs(c, call.text)
            /\ (\A c \in Range(CategoryOrder) : ~KeywordOccurs(c, call.text))
                   => r = <<"concepts">>

\* a text naming research before a model, in upper case: the result is in
\* the fixed order, not the order of the text
C1_Witness ==
    /\ call.fn = "categorize_content" /\ ret.done
    /\ call.text = <<"s", "t", "u", "d", "y", " ", "G", "P", "T">>
    /\ ret.value = <<"models", "research">>

(***************************************************************************)
(* extract_dates                                                           *)
(***************************************************************************)
\* the alternatives of month_pattern's first group, in the pattern's order
MonthNames ==
    << <<"J", "a", "n", "u", "a", "r", "y">>,
       <<"F", "e", "b", "r", "u", "a", "r", "y">>,
       <<"M", "a", "r", "c", "h">>,
       <<"A", "p", "r", "i", "l">>,
       <<"M", "a", "y">>,
       <<"J", "u", "n", "e">>,
       <<"J", "u", "l", "y">>,
       <<"A", "u", "g", "u", "s", "t">>,
       <<"S", "e", "p", "t", "e", "m", "b", "e", "r">>,
       <<"O", "c", "t", "o", "b", "e", "r">>,
       <<"N", "o", "v", "e", "m", "b", "e", "r">>,
       <<"D", "e", "c", "e", "m", "b", "e", "r">> >>

RECURSIVE IntToStr(_)
\* str(n) for a natural number n
IntToStr(n) ==
    IF n < 10 THEN <<Digits[n + 1]>>
    ELSE IntToStr(n \div 10) \o <<Digits[(n % 10) + 1]>>

\* month k of the pattern matches at position i (re.IGNORECASE)
MonthMatchesAt(text, i, k) ==
    /\ i + Len(MonthNames[k]) - 1 <= Len(text)
    /\ \A j \in 1..Len(MonthNames[k]) :
           LowerChar(text[i + j - 1]) = LowerChar(MonthNames[k][j])

\* \s* from position p: the position of the first character it leaves
SkipSpaces(text, p) ==
    LET stops == {q \in p..(Len(text) + 1) :
                     q = Len(text) + 1 \/ ~IsSpace(text[q])}
    IN  CHOOSE q \in stops : \A r \in stops : q <= r

DigitAt(text, p) == p <= Len(text) /\ IsDigit(text[p])

\* re.search(month_pattern, text, re.IGNORECASE): the leftmost position at
\* which a month matches; the groups matched greedily from there, none of
\* which can fail: (\d{1,2})? takes two digits when there are two
SearchMonth(text) ==
    LET starts == {i \in 1..Len(text) :
                      \E k \in 1..Len(MonthNames) : MonthMatchesAt(text, i, k)}
    IN  IF starts = {} THEN [matched |-> FALSE]
        ELSE
          LET i == CHOOSE a \in starts : \A b \in starts : a <= b
              ks == {k \in 1..Len(MonthNames) : MonthMatchesAt(text, i, k)}
              k == CHOOSE a \in ks : \A b \in ks : a <= b
              p0 == i + Len(MonthNames[k])
              p1 == SkipSpaces(text, p0)
              dlen == IF DigitAt(text, p1)
                      THEN (IF DigitAt(text, p1 + 1) THEN 2 ELSE 1)
                      ELSE 0
              p2 == p1 + dlen
              p3 == IF p2 <= Len(text) /\ text[p2] = "," THEN p2 + 1 ELSE p2
              p4 == SkipSpaces(text, p3)
              hasYear == \A d \in 0..3 : DigitAt(text, p4 + d)
          IN  [matched |-> TRUE,
               group1 |-> SubSeq(text, i, p0 - 1),
               group2 |-> SubSeq(text, p1, p2 - 1),
               group3 |-> IF hasYear THEN SubSeq(text, p4, p4 + 3) ELSE <<>>]

extract_dates(text, year) ==
    LET match == SearchMonth(text)
    IN  IF match.matched
        THEN LET month == match.group1
                 day == match.group2
                 found_year == IF match.group3 # <<>> THEN match.group3
                               ELSE IntToStr(year)
             IN  IF day # <<>>
                 THEN month \o <<" ">> \o day \o <<",", " ">> \o found_year
                 ELSE month \o <<" ">> \o found_year
        ELSE IntToStr(year)

(***************************************************************************)
(* extract_dates called on its own                                         *)
(***************************************************************************)
MaxDateFrags == 5

\* words of prose: month names in two spellings, numbers of one, two and
\* four digits (each after a space), a comma, a space, another word
DateFragments ==
    { <<"M", "a", "r", "c", "h">>,
      <<"m", "a", "y">>,
      <<" ">>,
      <<",">>,
      <<" ", "5">>,
      <<" ", "1", "5">>,
      <<" ", "2", "0", "2", "5">>,
      <<"x">> }

DateTexts(n) == {Concat(fs) : fs \in SeqUpTo(DateFragments, n)}

FallbackYears == {2024, 2026}

InitDate ==
    /\ call \in {[fn |-> "extract_dates", text |-> t, year |-> y] :
                    t \in DateTexts(MaxDateFrags), y \in FallbackYears}
    /\ ret = NoRet
    /\ MainIdle

CallExtractDates ==
    /\ call.fn = "extract_dates"
    /\ ~ret.done
    /\ ret' = [done |-> TRUE, value |-> extract_dates(call.text, call.year)]
    /\ UNCHANGED <<call, mainVars>>

SpecDate == InitDate /\ [][CallExtractDates]_vars

\* what follows position p once leading whitespace is dropped
AfterSpaces(text, p) ==
    LET rest == SubSeq(text, p, Len(text))
        keep == {i \in 1..Len(rest) : rest[i] # " "}
    IN  IF keep = {} THEN <<>>
        ELSE SubSeq(rest, CHOOSE i \in keep : \A j \in keep : i <= j, Len(rest))

\* the digits a text starts with
LeadingDigits(text) ==
    LET n == CHOOSE m \in 0..Len(text) :
                 /\ \A i \in 1..m : IsDigit(text[i])
                 /\ m = Len(text) \/ ~IsDigit(text[m + 1])
    IN  SubSeq(text, 1, n)

\* the four-digit year a text starts with, after an optional comma and
\* whitespace; <<>> when there is none
YearAhead(text) ==
    LET t1 == IF text # <<>> /\ text[1] = "," THEN Tail(text) ELSE text
        t2 == AfterSpaces(t1, 1)
    IN  IF Len(t2) >= 4 /\ \A i \in 1..4 : IsDigit(t2[i])
        THEN SubSeq(t2, 1, 4) ELSE <<>>

\* the date the specification describes for a text and a fallback year
DescribedDate(text, year) ==
    LET starts == {i \in 1..Len(text) :
                      \E k \in 1..Len(MonthNames) : MonthMatchesAt(text, i, k)}
    IN  IF starts = {} THEN IntToStr(year)
        ELSE
          LET i == CHOOSE a \in starts : \A b \in starts : a <= b
              k == CHOOSE m \in 1..Len(MonthNames) : MonthMatchesAt(text, i, m)
              month == SubSeq(text, i, i + Len(MonthNames[k]) - 1)
              rest == AfterSpaces(text, i + Len(MonthNames[k]))
              run == LeadingDigits(rest)
              isDay == Len(run) \in {1, 2}
              ahead == IF isDay THEN SubSeq(rest, Len(run) + 1, Len(rest))
                       ELSE rest
              y == IF YearAhead(ahead) # <<>> THEN YearAhead(ahead)
                   ELSE IntToStr(year)
          IN  IF isDay THEN month \o <<" ">> \o run \o <<",", " ">> \o y
              ELSE month \o <<" ">> \o y

\* C2: extract_dates returns the fallback year as a string when the text has
\* no month name; otherwise, for the leftmost month name, "<Month> <Day>,
\* <Year>" when the month is followed by a one-or-two-digit day and "<Month>
\* <Year>" when it is not, <Year> being the four-digit year that follows in
\* the text when there is one and the fallback year otherwise.
C2_ExtractDates ==
    (call.fn = "extract_dates" /\ ret.done) =>
        ret.value = DescribedDate(call.text, call.year)

\* the part of C2 the code keeps: when the digits that follow the month are
\* at most two, the date returned is the described one
ExtractDates_AtMostTwoDigits ==
    (/\ call.fn = "extract_dates" /\ ret.done
     /\ \A i \in 1..Len(call.text) : \A k \in 1..Len(MonthNames) :
            MonthMatchesAt(call.text, i, k) =>
                Len(LeadingDigits(AfterSpaces(call.text, i + Len(MonthNames[k])))) <= 2)
        => ret.value = DescribedDate(call.text, call.year)

(***************************************************************************)
(* Documents.  A parsed document is the list of its elements in document   *)
(* order; an element records its tag, its depth in the tree (the children  *)
(* of the document have depth 1), the text it holds directly, its href     *)
(* attribute and its class.  Element 0 stands for the whole document.      *)
(***************************************************************************)
NoHref == [present |-> FALSE]

Elem(tag, depth, text) ==
    [tag |-> tag, depth |-> depth, text |-> text, href |-> NoHref, class |-> ""]

Anchor(depth, text, href) ==
    [tag |-> "a", depth |-> depth, text |-> text,
     href |-> [present |-> TRUE, value |-> href], class |-> ""]

DepthOf(ns, i) == IF i = 0 THEN 0 ELSE ns[i].depth

\* the elements below element i, in document order
Descendants(ns, i) ==
    {j \in (i + 1)..Len(ns) :
        \A k \in (i + 1)..j : ns[k].depth > DepthOf(ns, i)}

\* the indices in a set, in increasing order
Sorted(idx) ==
    [n \in 1..Cardinality(idx) |->
        CHOOSE i \in idx : Cardinality({j \in idx : j < i}) = n - 1]

\* Tag.get_text(strip=True): the stripped strings of the element and of
\* the elements below it, in document order, joined by ""
get_text(ns, i) ==
    LET own == Sorted({i} \cup Descendants(ns, i))
    IN  Concat([k \in 1..Len(own) |-> Strip(ns[own[k]].text)])

\* soup.find(tag): the first element of that tag, 0 when there is none
FindTag(ns, tag) ==
    LET found == {i \in 1..Len(ns) : ns[i].tag = tag}
    IN  IF found = {} THEN 0 ELSE CHOOSE i \in found : \A j \in found : i <= j

\* soup.find('div', class_='entry-content')
FindEntryContent(ns) ==
    LET found == {i \in 1..Len(ns) :
                     ns[i].tag = "div" /\ ns[i].class = "entry-content"}
    IN  IF found = {} THEN 0 ELSE CHOOSE i \in found : \A j \in found : i <= j

\* soup.find('article') or soup.find('div', class_='entry-content') or soup
ContentContainer(ns) ==
    IF FindTag(ns, "article") # 0 THEN FindTag(ns, "article")
    ELSE FindEntryContent(ns)

\* Tag.find_next_siblings(): the later elements with the same parent
find_next_siblings(ns, i) ==
    Sorted({j \in (i + 1)..Len(ns) :
               /\ ns[j].depth = ns[i].depth
               /\ \A k \in (i + 1)..j : ns[k].depth >= ns[i].depth})

(***************************************************************************)
(* extract_headings_and_sections                                           *)
(***************************************************************************)
IsHeading(e) == e.tag \in {"h2", "h3"}

\* a plausible bug: the scan does not stop at the next heading
RECURSIVE SectionContent_NoBreak(_, _, _)
SectionContent_NoBreak(ns, sibs, k) ==
    IF k > Len(sibs) THEN <<>>
    ELSE IF ns[sibs[k]].tag = "p"
         THEN <<get_text(ns, sibs[k])>> \o SectionContent_NoBreak(ns, sibs, k + 1)
    ELSE SectionContent_NoBreak(ns, sibs, k + 1)

\* the loop over heading.find_next_siblings(): sibs from position k on
RECURSIVE SectionContent(_, _, _)
SectionContent(ns, sibs, k) ==
    IF k > Len(sibs) THEN <<>>
    ELSE IF IsHeading(ns[sibs[k]]) THEN <<>>
    ELSE IF ns[sibs[k]].tag = "p"
         THEN <<get_text(ns, sibs[k])>> \o SectionContent(ns, sibs, k + 1)
    ELSE SectionContent(ns, sibs, k + 1)

\* one section: its dict as built for a heading
SectionOf(ns, h) ==
    [title |-> get_text(ns, h),
     level |-> IF ns[h].tag = "h2" THEN 2 ELSE 3,
     content |-> SectionContent(ns, find_next_siblings(ns, h), 1)]

extract_headings_and_sections(ns) ==
    LET article == ContentContainer(ns)
        headings == Sorted({j \in Descendants(ns, article) : IsHeading(ns[j])})
    IN  [k \in 1..Len(headings) |-> SectionOf(ns, headings[k])]

(***************************************************************************)
(* URLs.  A URL is scheme://host/path#frag as a record; path holds the     *)
(* segments between the slashes (a last segment "" is a trailing slash),   *)
(* rooted tells whether the path starts with a slash.                      *)
(***************************************************************************)
Url(scheme, host, rooted, path, frag) ==
    [scheme |-> scheme, host |-> host, rooted |-> rooted, path |-> path,
     frag |-> frag]

EmptyUrl == Url("", "", FALSE, <<>>, "")

\* Known URL patterns for the year-in-review posts
URL_PATTERNS ==
    (2023 :> Url("https", "simonwillison.net", TRUE,
                 <<"2023", "Dec", "31", "ai-in-2023", "">>, ""))
    @@ (2024 :> Url("https", "simonwillison.net", TRUE,
                    <<"2024", "Dec", "31", "llms-in-2024", "">>, ""))
    @@ (2025 :> Url("https", "simonwillison.net", TRUE,
                    <<"2025", "Dec", "31", "the-year-in-llms", "">>, ""))

get_url_for_year(year) ==
    IF year \in DOMAIN URL_PATTERNS THEN URL_PATTERNS[year]
    ELSE Url("https", "simonwillison.net", TRUE,
             <<ToString(year), "Dec", "31", "the-year-in-llms", "">>, "")

\* href.startswith(('http://', 'https://'))
StartsWithHttp(u) == u.scheme \in {"http", "https"} /\ u.host # ""

\* the schemes of urllib.parse.uses_relative / uses_netloc met here
UsesRelative == {"http", "https", "ftp", ""}

RECURSIVE ResolveDots(_, _)
\* urljoin's loop over the merged segments: ".." drops the last one kept
\* (none at the root), "." is skipped
ResolveDots(segs, kept) ==
    IF segs = <<>> THEN kept
    ELSE IF Head(segs) = ".."
         THEN ResolveDots(Tail(segs),
                          IF kept = <<>> THEN kept
                          ELSE SubSeq(kept, 1, Len(kept) - 1))
    ELSE IF Head(segs) = "." THEN ResolveDots(Tail(segs), kept)
    ELSE ResolveDots(Tail(segs), Append(kept, Head(segs)))

\* the inner empty segments are dropped (filter(None, segments[1:-1]))
DropInnerEmpty(segs) ==
    SelectIdx(segs, {i \in 1..Len(segs) : segs[i] # "" \/ i = Len(segs)})

\* urllib.parse.urljoin(base, u), base being an absolute http(s) URL
urljoin(base, u) ==
    IF u = EmptyUrl THEN base
    ELSE IF u.scheme # "" /\ (u.scheme # base.scheme \/ u.scheme \notin UsesRelative)
         THEN u
    ELSE IF u.host # ""
         THEN Url(base.scheme, u.host, u.rooted, u.path, u.frag)
    ELSE IF u.path = <<>> /\ ~u.rooted
         THEN Url(base.scheme, base.host, base.rooted, base.path, u.frag)
    ELSE
      LET base_parts == SubSeq(base.path, 1, Len(base.path) - 1)
          segments == IF u.rooted THEN u.path
                      ELSE DropInnerEmpty(base_parts \o u.path)
          resolved == ResolveDots(segments, <<>>)
          path == IF segments[Len(segments)] \in {".", ".."}
                  THEN Append(resolved, "") ELSE resolved
      IN  Url(base.scheme, base.host, TRUE,
              IF path = <<>> THEN <<"">> ELSE path, u.frag)

(***************************************************************************)
(* extract_links                                                           *)
(***************************************************************************)
\* the href of anchor a, made absolute
ResolvedHref(a, base_url) ==
    IF ~StartsWithHttp(a.href.value) THEN urljoin(base_url, a.href.value)
    ELSE a.href.value

\* a plausible bug: the anchor's visible text is not tested
LinkKept_AnyText(ns, j, base_url) == ResolvedHref(ns[j], base_url) # EmptyUrl

\* if text and href
LinkKept(ns, j, base_url) ==
    get_text(ns, j) # <<>> /\ ResolvedHref(ns[j], base_url) # EmptyUrl

extract_links(ns, base_url) ==
    LET article == ContentContainer(ns)
        anchors == Sorted({j \in Descendants(ns, article) :
                              ns[j].tag = "a" /\ ns[j].href.present})
        kept == SelectIdx(anchors, {k \in 1..Len(anchors) :
                                       LinkKept(ns, anchors[k], base_url)})
    IN  [k \in 1..Len(kept) |->
            [text |-> get_text(ns, kept[k]),
             url |-> ResolvedHref(ns[kept[k]], base_url)]]

(***************************************************************************)
(* extract_headings_and_sections called on its own, on every tree of up to *)
(* MaxNodes elements over five tags; element i holds the text " t<i> ".    *)
(***************************************************************************)
MaxNodes == 4

TreeTags == {"h2", "h3", "p", "div", "article"}

NodeText(i) == <<" ", "t", Digits[i + 1], " ">>

\* the depths of a tree's elements in document order: the first element is
\* a child of the document, an element is at most one level below the one
\* before it
ValidDepths(depths) ==
    \A i \in 1..Len(depths) :
        depths[i] <= (IF i = 1 THEN 1 ELSE depths[i - 1] + 1)

TreeDoc(tags, depths) ==
    [i \in 1..Len(tags) |-> Elem(tags[i], depths[i], NodeText(i))]

InitSections ==
    /\ \E n \in 0..MaxNodes :
         \E depths \in [1..n -> 1..MaxNodes] :
            /\ ValidDepths(depths)
            /\ \E tags \in [1..n -> TreeTags] :
                  call = [fn |-> "extract_headings_and_sections",
                          soup |-> TreeDoc(tags, depths)]
    /\ ret = NoRet
    /\ MainIdle

CallExtractSections ==
    /\ call.fn = "extract_headings_and_sections"
    /\ ~ret.done
    /\ ret' = [done |-> TRUE, value |-> extract_headings_and_sections(call.soup)]
    /\ UNCHANGED <<call, mainVars>>

SpecSections == InitSections /\ [][CallExtractSections]_vars

\* the parent of element i: the nearest earlier element of smaller depth
ParentOf(ns, i) ==
    LET up == {j \in 1..(i - 1) : ns[j].depth < ns[i].depth}
    IN  IF up = {} THEN 0 ELSE CHOOSE j \in up : \A k \in up : k <= j

RECURSIVE InSubtree(_, _, _)
\* element i lies below element c (0: the document)
InSubtree(ns, i, c) ==
    IF c = 0 THEN TRUE
    ELSE IF i = 0 THEN FALSE
    ELSE ParentOf(ns, i) = c \/ InSubtree(ns, ParentOf(ns, i), c)

\* the content container: the first article, else the first entry-content
\* div, else the document
ContainerOf(ns) ==
    LET arts == {i \in 1..Len(ns) : ns[i].tag = "article"}
        divs == {i \in 1..Len(ns) :
                    ns[i].tag = "div" /\ ns[i].class = "entry-content"}
    IN  IF arts # {} THEN CHOOSE i \in arts : \A j \in arts : i <= j
        ELSE IF divs # {} THEN CHOOSE i \in divs : \A j \in divs : i <= j
        ELSE 0

\* the h2 and h3 elements of the content container
HeadingsOf(ns) ==
    {i \in 1..Len(ns) :
        ns[i].tag \in {"h2", "h3"} /\ InSubtree(ns, i, ContainerOf(ns))}

\* the paragraphs of heading h: its later siblings of tag p with no h2 or
\* h3 sibling of h between h and them
ParagraphsOf(ns, h) ==
    {q \in (h + 1)..Len(ns) :
        /\ ns[q].tag = "p"
        /\ ParentOf(ns, q) = ParentOf(ns, h)
        /\ \A g \in (h + 1)..(q - 1) :
               ~(ns[g].tag \in {"h2", "h3"} /\ ParentOf(ns, g) = ParentOf(ns, h))}

\* C5: extract_headings_and_sections returns one section per h2 or h3 of the
\* content container, in document order, with the heading's rank and trimmed
\* text; a section's content is the trimmed texts, in order, of the paragraph
\* siblings after its heading up to the next h2 or h3 sibling, so no
\* paragraph is in two sections; without h2/h3 the list is empty.
C5_Sections ==
    (call.fn = "extract_headings_and_sections" /\ ret.done) =>
        LET ns == call.soup
            hs == Sorted(HeadingsOf(ns))
            r == ret.value
        IN  /\ Len(r) = Len(hs)
            /\ \A k \in 1..Len(hs) :
                 LET ps == Sorted(ParagraphsOf(ns, hs[k]))
                 IN  /\ r[k].level = (IF ns[hs[k]].tag = "h2" THEN 2 ELSE 3)
                     /\ r[k].title = get_text(ns, hs[k])
                     /\ r[k].title # <<>> /\ r[k].title[1] # " "
                     /\ r[k].content = [m \in 1..Len(ps) |-> get_text(ns, ps[m])]
            /\ \A k, l \in 1..Len(r) :
                 k # l => Range(r[k].content) \cap Range(r[l].content) = {}

\* two headings with a paragraph each: the first section stops at the
\* second heading
C5_Witness ==
    /\ call.fn = "extract_headings_and_sections" /\ ret.done
    /\ Len(call.soup) = 4
    /\ call.soup[1].tag = "h2" /\ call.soup[2].tag = "p"
    /\ call.soup[3].tag = "h3" /\ call.soup[4].tag = "p"
    /\ \A i \in 1..4 : call.soup[i].depth = 1
    /\ Len(ret.value) = 2
    /\ ret.value[1].content = <<<<"t", "2">>>>
    /\ ret.value[2].content = <<<<"t", "4">>>>

(***************************************************************************)
(* extract_links called on its own, on every list of up to MaxAnchors      *)
(* anchors, inside or outside a content container.                         *)
(***************************************************************************)
MaxAnchors == 2

\* link targets as written in a page: absolute (https, http), /foo, foo,
\* ../foo, #top, the empty string, //cdn.example.org/x, mailto:me@example.org
HrefSamples ==
    { Url("https", "example.org", TRUE, <<"a">>, ""),
      Url("http", "example.org", TRUE, <<"a">>, ""),
      Url("", "", TRUE, <<"foo">>, ""),
      Url("", "", FALSE, <<"foo">>, ""),
      Url("", "", FALSE, <<"..", "foo">>, ""),
      Url("", "", FALSE, <<>>, "top"),
      EmptyUrl,
      Url("", "cdn.example.org", TRUE, <<"x">>, ""),
      Url("mailto", "", FALSE, <<"me@example.org">>, "") }

HrefAttrs == {NoHref} \cup {[present |-> TRUE, value |-> h] : h \in HrefSamples}

AnchorTexts == { <<>>, <<" ">>, <<" ", "a", " ">> }

WrapKinds == {"none", "article", "article-first", "entry-first", "entry-then-article"}

\* the anchors as elements: at depth 2 when inside the container
AnchorElems(texts, hrefs, inside) ==
    [i \in 1..Len(texts) |->
        [tag |-> "a", depth |-> IF i \in inside THEN 2 ELSE 1,
         text |-> texts[i], href |-> hrefs[i], class |-> ""]]

EntryContentDiv == [Elem("div", 1, <<>>) EXCEPT !.class = "entry-content"]

LinkDoc(texts, hrefs, wrap) ==
    LET n == Len(texts)
    IN  CASE wrap = "none" -> AnchorElems(texts, hrefs, {})
          [] wrap = "article" ->
                <<Elem("article", 1, <<>>)>> \o AnchorElems(texts, hrefs, 1..n)
          [] wrap = "article-first" ->
                <<Elem("article", 1, <<>>)>> \o AnchorElems(texts, hrefs, {1})
          [] wrap = "entry-first" ->
                <<EntryContentDiv>> \o AnchorElems(texts, hrefs, {1})
          [] wrap = "entry-then-article" ->
                LET as == AnchorElems(texts, hrefs, 1..n)
                IN  IF n = 0 THEN <<EntryContentDiv, Elem("article", 1, <<>>)>>
                    ELSE <<EntryContentDiv, as[1], Elem("article", 1, <<>>)>>
                         \o SubSeq(as, 2, n)

LinkBaseYears == {2025, 2026}

InitLinks ==
    /\ \E n \in 0..MaxAnchors :
         \E texts \in [1..n -> AnchorTexts] :
            \E hrefs \in [1..n -> HrefAttrs] :
               \E wrap \in WrapKinds :
                  \E y \in LinkBaseYears :
                     call = [fn |-> "extract_links",
                             soup |-> LinkDoc(texts, hrefs, wrap),
                             base_url |-> get_url_for_year(y)]
    /\ ret = NoRet
    /\ MainIdle

CallExtractLinks ==
    /\ call.fn = "extract_links"
    /\ ~ret.done
    /\ ret' = [done |-> TRUE, value |-> extract_links(call.soup, call.base_url)]
    /\ UNCHANGED <<call, mainVars>>

SpecLinks == InitLinks /\ [][CallExtractLinks]_vars

\* the anchors of the content container that carry a link target and whose
\* visible text is not empty once trimmed
LinkAnchors(ns) ==
    {j \in 1..Len(ns) :
        /\ ns[j].tag = "a" /\ ns[j].href.present
        /\ InSubtree(ns, j, ContainerOf(ns))
        /\ \E i \in 1..Len(get_text(ns, j)) : get_text(ns, j)[i] # " "}

\* C8: extract_links returns, in document order and with duplicates kept, one
\* Link for exactly the anchors carrying a link target whose visible text is
\* non-empty after trimming; every Link has non-empty text and an absolute
\* url: an http/https target unchanged, any other target resolved against
\* the source URL.  An anchor with empty visible text is never returned.
C8_Links ==
    (call.fn = "extract_links" /\ ret.done) =>
        LET ns == call.soup
            q == Sorted(LinkAnchors(ns))
            r == ret.value
        IN  /\ Len(r) = Len(q)
            /\ \A k \in 1..Len(q) :
                 LET h == ns[q[k]].href.value
                 IN  /\ r[k].text = get_text(ns, q[k])
                     /\ r[k].text # <<>>
                     /\ r[k].url.scheme # ""
                     /\ (h.scheme \in {"http", "https"} /\ h.host # "")
                            => r[k].url = h
                     /\ (h.scheme = "" /\ h.host = "")
                            => /\ r[k].url.scheme = call.base_url.scheme
                               /\ r[k].url.host = call.base_url.host
                               /\ r[k].url.rooted
                     /\ (h.scheme = "" /\ h.host = "" /\ h.rooted)
                            => r[k].url.path = h.path
                     /\ ~(h.scheme \in {"http", "https"} /\ h.host # "")
                            => r[k].url = urljoin(call.base_url, h)

\* an anchor without visible text and with a valid target is left out, the
\* anchor after it is kept and its target /foo is resolved against the post
C8_Witness ==
    /\ call.fn = "extract_links" /\ ret.done
    /\ Len(call.soup) = 2
    /\ call.soup[1].text = <<" ">>
    /\ call.soup[1].href = [present |-> TRUE,
                            value |-> Url("https", "example.org", TRUE, <<"a">>, "")]
    /\ ret.value = << [text |-> <<"a">>,
                       url |-> Url("https", "simonwillison.net", TRUE,
                                   <<"foo">>, "")] >>

(***************************************************************************)
(* The web.  site maps the URL of a post to what a GET answers: a failure  *)
(* (a network error, a timeout, a non-success status) or the markup, which *)
(* may be the empty string.  net tells how HEAD requests are answered.     *)
(***************************************************************************)
GetFails == [ok |-> FALSE]
EmptyMarkup == [empty |-> TRUE]
Markup(ns) == [empty |-> FALSE, nodes |-> ns]
GetAnswers(markup) == [ok |-> TRUE, text |-> markup]

\* fetch_page: response.text, or None on a RequestException
fetch_page(u) == IF site[u].ok THEN site[u].text ELSE NoHtml

\* if not html: None and the empty string
NotHtml(h) == h = NoHtml \/ h.empty

NetModes == {"up", "down", "moved", "flaky"}

\* the status codes a flaky server answers, by the last segments of the path
StatusCycle == <<200, 399, 400, 404, 500>>

\* a number read off a segment: its value when it is a digit
SegValue(seg) ==
    IF seg \in DigitSet THEN CHOOSE k \in 0..9 : Digits[k + 1] = seg ELSE 1

\* a number read off the last two segments of the path of u
PathWeight(u) ==
    LET n == Len(u.path)
    IN  (IF n >= 1 THEN SegValue(u.path[n]) ELSE 0)
            + (IF n >= 2 THEN SegValue(u.path[n - 1]) ELSE 0)

\* requests.head(url, timeout=10, allow_redirects=True): an exception
\* (raised) or the last response of the redirect chain
HeadResponse(u, mode) ==
    IF u.scheme \notin {"http", "https"} \/ u.host = "" THEN [raised |-> TRUE]
    ELSE IF mode = "down" THEN [raised |-> TRUE]
    ELSE IF mode = "moved"
         THEN [raised |-> FALSE, status_code |-> 200,
               url |-> [u EXCEPT !.host = "www.example.net"]]
    ELSE IF mode = "flaky"
         THEN (IF PathWeight(u) % (Len(StatusCycle) + 1) = 0
               THEN [raised |-> TRUE]
               ELSE [raised |-> FALSE,
                     status_code |->
                         StatusCycle[PathWeight(u) % (Len(StatusCycle) + 1)],
                     url |-> u])
    ELSE [raised |-> FALSE, status_code |-> 200, url |-> u]

\* valid: response.status_code < 400
ValidStatusBelow == 400

verify_link(u) ==
    LET response == HeadResponse(u, net)
    IN  IF response.raised
        THEN [url |-> u, status |-> [has |-> FALSE], valid |-> FALSE,
              error |-> "RequestException"]
        ELSE [url |-> u,
              status |-> [has |-> TRUE, code |-> response.status_code],
              valid |-> response.status_code < ValidStatusBelow,
              final_url |-> IF response.url # u THEN response.url ELSE NoUrl]

(***************************************************************************)
(* scrape_year: building the events                                        *)
(***************************************************************************)
\* the length a description is cut to
DescLimit == 300

Ellipsis == <<".", ".", ".">>

\* a plausible bug: the ellipsis is appended to every description
Description_Always(content_text) ==
    (IF Len(content_text) > DescLimit THEN SubSeq(content_text, 1, DescLimit)
     ELSE content_text) \o Ellipsis

\* content_text[:300] + '...' if len(content_text) > 300 else content_text
Description(content_text) ==
    IF Len(content_text) > DescLimit
    THEN SubSeq(content_text, 1, DescLimit) \o Ellipsis
    ELSE content_text

\* a plausible bug: the link text is compared with the content as written
LinkMatches_CaseSensitive(link, content_text, section_title) ==
    Contains(content_text, link.text) \/ Contains(section_title, link.text)

\* link['text'].lower() in content_text.lower() or link['text'] in section['title']
LinkMatches(link, content_text, section_title) ==
    \/ Contains(Lower(content_text), Lower(link.text))
    \/ Contains(section_title, link.text)

\* a plausible bug: a section without content gives an event all the same
HasContent_Always(section) == TRUE

\* if section['content']
HasContent(section) == section.content # <<>>

\* the event of one section
EventOf(section, ls, year) ==
    LET content_text == JoinSpace(section.content)
    IN  [title |-> section.title,
         date |-> extract_dates(content_text, year),
         categories |-> categorize_content(section.title \o <<" ">> \o content_text),
         description |-> Description(content_text),
         links |-> SelectIdx(ls, {k \in 1..Len(ls) :
                                     LinkMatches(ls[k], content_text, section.title)})]

\* the loop over sections
BuildEvents(secs, ls, year) ==
    LET with == SelectIdx(secs, {k \in 1..Len(secs) : HasContent(secs[k])})
    IN  [k \in 1..Len(with) |-> EventOf(with[k], ls, year)]

(***************************************************************************)
(* scrape_year and main, statement by statement.  pc names the statement   *)
(* about to run; yi is the position in years of the year of the loop.      *)
(***************************************************************************)
\* Limit to first 50
VerifyCap == 50

Min(a, b) == IF a <= b THEN a ELSE b

\* the year of the loop in main
year == argv.years[yi]

\* the locals of scrape_year before the call and after its return
NoLocals ==
    /\ url' = NoUrl /\ html' = NoHtml /\ soup' = NoDoc /\ title' = NoText
    /\ links' = <<>> /\ sections' = <<>> /\ events' = <<>>
    /\ unique_urls' = <<>> /\ vi' = 0 /\ link_verification' = <<>>

\* url = get_url_for_year(year); html = fetch_page(url); if not html: return None
Fetch ==
    /\ pc = "fetch"
    /\ LET u == get_url_for_year(year)
           h == fetch_page(u)
       IN  /\ requests' = Append(requests, [method |-> "GET", url |-> u])
           /\ IF NotHtml(h)
              THEN /\ data' = NoData
                   /\ pc' = "returned"
                   /\ UNCHANGED <<url, html>>
              ELSE /\ url' = u
                   /\ html' = h
                   /\ pc' = "parse"
                   /\ UNCHANGED data
    /\ UNCHANGED <<call, ret, argv, site, net, yi, soup, title, links, sections,
                   events, unique_urls, vi, link_verification, results, files,
                   clock>>

\* "Year in LLMs {year}"
DefaultTitle(y) ==
    <<"Y", "e", "a", "r", " ", "i", "n", " ", "L", "L", "M", "s", " ">>
        \o IntToStr(y)

\* soup = BeautifulSoup(html, 'html.parser'); the title of the page
Parse ==
    /\ pc = "parse"
    /\ soup' = [parsed |-> TRUE, nodes |-> html.nodes]
    /\ LET ns == html.nodes
           title_elem == IF FindTag(ns, "h1") # 0 THEN FindTag(ns, "h1")
                         ELSE FindTag(ns, "title")
       IN  title' = IF title_elem # 0 THEN get_text(ns, title_elem)
                    ELSE DefaultTitle(year)
    /\ pc' = "extract"
    /\ UNCHANGED <<call, ret, argv, site, net, yi, url, html, links, sections,
                   events, unique_urls, vi, link_verification, data, results,
                   files, requests, clock>>

\* links = extract_links(soup, url); sections = extract_headings_and_sections(soup)
Extract ==
    /\ pc = "extract"
    /\ links' = extract_links(soup.nodes, url)
    /\ sections' = extract_headings_and_sections(soup.nodes)
    /\ pc' = "build"
    /\ UNCHANGED <<call, ret, argv, site, net, yi, url, html, soup, title,
                   events, unique_urls, vi, link_verification, data, results,
                   files, requests, clock>>

\* Build events from sections
Build ==
    /\ pc = "build"
    /\ events' = BuildEvents(sections, links, year)
    /\ pc' = "verify"
    /\ UNCHANGED <<call, ret, argv, site, net, yi, url, html, soup, title,
                   links, sections, unique_urls, vi, link_verification, data,
                   results, files, requests, clock>>

\* the urls of the links, each once, in the order of their first occurrence
FirstSeen(ls) ==
    SelectIdx([k \in 1..Len(ls) |-> ls[k].url],
              {k \in 1..Len(ls) : \A j \in 1..(k - 1) : ls[j].url # ls[k].url})

\* the orders of a set of this many urls that are tried one by one
MaxPermute == 3

\* list(set(...)): the order of a set is the interpreter's.  Every order of
\* up to MaxPermute urls; of more, the rotations of the order of first
\* occurrence and its reverse.
Orderings(canon) ==
    LET n == Len(canon)
    IN  IF n <= MaxPermute
        THEN {[k \in 1..n |-> canon[f[k]]] :
                 f \in {g \in [1..n -> 1..n] :
                           \A a, b \in 1..n : a # b => g[a] # g[b]}}
        ELSE {[k \in 1..n |-> canon[((k + r - 1) % n) + 1]] : r \in 0..(n - 1)}
             \cup {[k \in 1..n |-> canon[n + 1 - k]]}

\* a plausible bug: the list of links is verified as it is, duplicates kept
UniqueUrlOrders_NoSet(ls) == {[k \in 1..Len(ls) |-> ls[k].url]}

\* unique_urls = list(set(link['url'] for link in links))
UniqueUrlOrders(ls) == Orderings(FirstSeen(ls))

\* a plausible bug: the links are verified whether requested or not
VerifyStart_Always ==
    /\ pc = "verify"
    /\ link_verification' = <<>>
    /\ unique_urls' \in UniqueUrlOrders(links)
    /\ vi' = 0
    /\ pc' = IF unique_urls' = <<>> THEN "return" ELSE "verify_link"
    /\ UNCHANGED <<call, ret, argv, site, net, yi, url, html, soup, title,
                   links, sections, events, data, results, files, requests,
                   clock>>

\* link_verification = []; if verify_links: unique_urls = ...
VerifyStart ==
    /\ pc = "verify"
    /\ link_verification' = <<>>
    /\ IF argv.verify_links
       THEN /\ unique_urls' \in UniqueUrlOrders(links)
            /\ vi' = 0
            /\ pc' = IF unique_urls' = <<>> THEN "return" ELSE "verify_link"
       ELSE /\ pc' = "return"
            /\ UNCHANGED <<unique_urls, vi>>
    /\ UNCHANGED <<call, ret, argv, site, net, yi, url, html, soup, title,
                   links, sections, events, data, results, files, requests,
                   clock>>

\* one turn of: for i, url in enumerate(unique_urls[:50]): ... verify_link(url).
\* The loop variable is the local url of scrape_year.
VerifyLink ==
    /\ pc = "verify_link"
    /\ url' = unique_urls[vi + 1]
    /\ requests' = Append(requests, [method |-> "HEAD", url |-> url'])
    /\ link_verification' = Append(link_verification, verify_link(url'))
    /\ vi' = vi + 1
    /\ pc' = IF vi + 1 >= Min(Len(unique_urls), VerifyCap) THEN "return"
             ELSE "verify_link"
    /\ UNCHANGED <<call, ret, argv, site, net, yi, html, soup, title, links,
                   sections, events, unique_urls, data, results, files, clock>>

\* the dict scrape_year returns
YearResult ==
    [year |-> year,
     source_url |-> url,
     title |-> title,
     scraped_at |-> clock,
     events |-> events,
     all_links |-> links,
     sections |-> sections,
     link_verification |->
         IF argv.verify_links THEN [none |-> FALSE, items |-> link_verification]
         ELSE [none |-> TRUE]]

Return ==
    /\ pc = "return"
    /\ data' = YearResult
    /\ clock' = clock + 1
    /\ pc' = "returned"
    /\ NoLocals
    /\ UNCHANGED <<call, ret, argv, site, net, yi, results, files, requests>>

YearFile(y) == [name |-> "year_in_llms_<year>.json", year |-> y]
CombinedFile == [name |-> "year_in_llms_all.json"]

\* a plausible bug: a year that could not be fetched ends the loop
MainSave_StopOnFailure ==
    /\ pc = "returned"
    /\ IF data # NoData
       THEN /\ results' = (year :> data) @@ results
            /\ files' = (YearFile(year) :> data) @@ files
       ELSE UNCHANGED <<results, files>>
    /\ IF yi < Len(argv.years) /\ data # NoData
       THEN yi' = yi + 1 /\ pc' = "fetch"
       ELSE yi' = yi /\ pc' = "save_combined"
    /\ UNCHANGED <<call, ret, argv, site, net, url, html, soup, title, links,
                   sections, events, unique_urls, vi, link_verification, data,
                   requests, clock>>

\* if data: results[year] = data; the year's file is written; the next year
MainSave ==
    /\ pc = "returned"
    /\ IF data # NoData
       THEN /\ results' = (year :> data) @@ results
            /\ files' = (YearFile(year) :> data) @@ files
       ELSE UNCHANGED <<results, files>>
    /\ IF yi < Len(argv.years)
       THEN yi' = yi + 1 /\ pc' = "fetch"
       ELSE yi' = yi /\ pc' = "save_combined"
    /\ UNCHANGED <<call, ret, argv, site, net, url, html, soup, title, links,
                   sections, events, unique_urls, vi, link_verification, data,
                   requests, clock>>

\* if results: the combined file is written; the summary is printed
SaveCombined ==
    /\ pc = "save_combined"
    /\ IF DOMAIN results # {}
       THEN files' = (CombinedFile :> results) @@ files
       ELSE UNCHANGED files
    /\ pc' = "done"
    /\ UNCHANGED <<call, ret, argv, site, net, yi, url, html, soup, title,
                   links, sections, events, unique_urls, vi, link_verification,
                   data, results, requests, clock>>

Next ==
    \/ Fetch
    \/ Parse
    \/ Extract
    \/ Build
    \/ VerifyStart
    \/ VerifyLink
    \/ Return
    \/ MainSave
    \/ SaveCombined

(***************************************************************************)
(* The pages a run is given.                                               *)
(***************************************************************************)
\* sections of four kinds, one after the other: a heading alone, a heading
\* and a paragraph, a heading and two paragraphs, a heading and an empty
\* paragraph; block k holds the texts S<k>, p<k>a, p<k>b
MaxBlocks == 3

BlockKinds == {"h2", "h2p", "h3pp", "h2e"}

BlockElems(kind, k) ==
    LET d == Digits[k + 1]
        pa == Elem("p", 1, <<" ", "p", d, "a">>)
        pb == Elem("p", 1, <<"p", d, "b", " ">>)
    IN  CASE kind = "h2" -> <<Elem("h2", 1, <<"S", d>>)>>
          [] kind = "h2p" -> <<Elem("h2", 1, <<"S", d>>), pa>>
          [] kind = "h3pp" -> <<Elem("h3", 1, <<"S", d>>), pa, pb>>
          [] kind = "h2e" -> <<Elem("h2", 1, <<"S", d>>), Elem("p", 1, <<" ">>)>>

BlockDoc(kinds) == Concat([k \in 1..Len(kinds) |-> BlockElems(kinds[k], k)])

\* a section, a second section, and two links beside them, whose texts may
\* occur in the titles and the paragraphs in the same or another case
MatchTitles ==
    { <<"G", "P", "T", " ", "n", "e", "w", "s">>,
      <<"G", "o">> }

MatchParas ==
    { <<"t", "h", "e", " ", "g", "p", "t", " ", "a", "p", "i">>,
      <<"P", "r", "i", "c", "i", "n", "g">>,
      <<"s", "e", "e", " ", "G", "o", " ", "h", "e", "r", "e">> }

MatchLinkTexts == { <<"G", "P", "T">>, <<"g", "o">>, <<"G", "o">>, <<"A", "P", "I">> }

LinkMatchDoc(t, para, l1, l2, same) ==
    << Elem("h2", 1, t),
       Elem("p", 1, para),
       Elem("h2", 1, <<"O", "t", "h", "e", "r">>),
       Elem("p", 1, <<"g", "o", " ", "o", "n">>),
       Elem("div", 1, <<>>),
       Anchor(2, l1, Url("", "", TRUE, <<"a">>, "")),
       Anchor(2, l2, IF same THEN Url("", "", TRUE, <<"a">>, "")
                     ELSE Url("https", "example.org", TRUE, <<"b">>, "")) >>

\* one section whose paragraphs have lengths around the limit of a
\* description; a paragraph of n characters is abc...zabc...
MaxParas == 2

LengthSamples ==
    {0, DescLimit \div 2 - 1, DescLimit \div 2, DescLimit, DescLimit + 1}

LongText(n) == [i \in 1..n |-> LowerCase[((i - 1) % Len(LowerCase)) + 1]]

LongDoc(lens) ==
    <<Elem("h2", 1, <<"L", "o", "n", "g">>)>>
        \o [k \in 1..Len(lens) |-> Elem("p", 1, LongText(lens[k]))]

\* a section and, in a div beside it, n links to n urls (/0/1, /0/2, ...),
\* the first link twice
ExtraLinks == 1

LinkCounts == (VerifyCap - 1)..(VerifyCap + ExtraLinks)

ManyLinksDoc(n) ==
    LET a(i) == Anchor(2, <<"l">>,
                       Url("", "", TRUE,
                           <<Digits[(i \div 10) + 1], Digits[(i % 10) + 1]>>, ""))
    IN  << Elem("h2", 1, <<"L", "i", "n", "k", "s">>),
           Elem("p", 1, <<"a", "l", "l", " ", "l">>),
           Elem("div", 1, <<>>) >>
            \o [i \in 1..n |-> a(i)] \o <<a(1)>>

\* the page of the specification's end-to-end example, in an article under
\* an h1, its paragraph holding a link
EndToEndDoc ==
    << Elem("h1", 1, <<"A", "I">>),
       Elem("h2", 1, <<"M", "e", "n", "u">>),
       Elem("article", 1, <<>>),
       Elem("h2", 2, <<"B", "i", "g", " ", "M", "o", "d", "e", "l", "s">>),
       Elem("p", 2,
        <<"C", "l", "a", "u", "d", "e", " ", "a", "n", "d", " ", "G", "P",
        "T", " ", "m", "o", "d", "e", "l", "s", " ", "i", "m", "p", "r", "o",
        "v", "e", "d", " ", "s", "i", "g", "n", "i", "f", "i", "c", "a", "n",
        "t", "l", "y", ",", " ", "c", "o", "s", "t", "i", "n", "g", " ", "$",
        "2", "0", "/", "m", "o", "n", "t", "h">>),
       Anchor(3, <<"C", "l", "a", "u", "d", "e">>, Url("https", "example.org", TRUE, <<"a">>, "")) >>

\* the pages of the specification's examples of sections and of dates
SectionsDoc ==
    << Elem("h2", 1, <<"I", "n", "t", "r", "o">>),
       Elem("p", 1, <<"o", "n", "e">>),
       Elem("p", 1, <<"t", "w", "o">>),
       Elem("h2", 1, <<"M", "o", "d", "e", "l", "s">>),
       Elem("p", 1,
        <<"R", "e", "l", "e", "a", "s", "e", "d", " ", "o", "n", " ", "M",
        "a", "r", "c", "h", " ", "1", "5", ",", " ", "2", "0", "2", "5", " ",
        "t", "o", " ", "w", "i", "d", "e", " ", "a", "c", "c", "l", "a", "i",
        "m">>),
       Anchor(1, <<"o", "n", "e">>, Url("", "", FALSE, <<>>, "top")) >>

(***************************************************************************)
(* A run of main: `scrape_year_in_llms.py <year>` on one page of each      *)
(* family, or `--all` on the three known years, with or without            *)
(* --verify-links.                                                         *)
(***************************************************************************)
\* a year outside URL_PATTERNS, given on the command line
SingleYear == 2026

\* years = list(URL_PATTERNS.keys())
AllYears == <<2023, 2024, 2025>>

OnePage(ns) == (get_url_for_year(SingleYear) :> GetAnswers(Markup(ns)))

SmallResponses ==
    { GetFails,
      GetAnswers(EmptyMarkup),
      GetAnswers(Markup(EndToEndDoc)),
      GetAnswers(Markup(SectionsDoc)) }

\* the run of one year: the page does not answer, is empty, or is a page of
\* one of the families
InitSingle ==
    /\ \E v \in BOOLEAN : argv = [years |-> <<SingleYear>>, verify_links |-> v]
    /\ \/ \E r \in SmallResponses : site = (get_url_for_year(SingleYear) :> r)
       \/ \E n \in 0..MaxBlocks : \E kinds \in [1..n -> BlockKinds] :
             site = OnePage(BlockDoc(kinds))
       \/ \E t \in MatchTitles, para \in MatchParas,
             l1 \in MatchLinkTexts, l2 \in MatchLinkTexts, same \in BOOLEAN :
             site = OnePage(LinkMatchDoc(t, para, l1, l2, same))
       \/ \E n \in 0..MaxParas : \E lens \in [1..n -> LengthSamples] :
             site = OnePage(LongDoc(lens))
       \/ \E n \in LinkCounts : site = OnePage(ManyLinksDoc(n))

\* the run of --all: each of the three posts answers in one of four ways
InitAll ==
    /\ \E v \in BOOLEAN : argv = [years |-> AllYears, verify_links |-> v]
    /\ \E rs \in [1..Len(AllYears) -> SmallResponses] :
          site = [u \in {get_url_for_year(AllYears[i]) : i \in 1..Len(AllYears)} |->
                     rs[CHOOSE i \in 1..Len(AllYears) :
                            get_url_for_year(AllYears[i]) = u]]

\* some page of the site holds an anchor: the run may probe a link
SiteHasAnchor ==
    \E u \in DOMAIN site :
        /\ site[u].ok /\ ~site[u].text.empty
        /\ \E k \in 1..Len(site[u].text.nodes) : site[u].text.nodes[k].tag = "a"

\* the network answers probes in one of NetModes; a run that probes nothing
\* is started with the network up
Init ==
    /\ call = NoCall
    /\ ret = NoRet
    /\ InitSingle \/ InitAll
    /\ net \in (IF argv.verify_links /\ SiteHasAnchor THEN NetModes ELSE {"up"})
    /\ pc = "fetch"
    /\ yi = 1
    /\ url = NoUrl /\ html = NoHtml /\ soup = NoDoc /\ title = NoText
    /\ links = <<>> /\ sections = <<>> /\ events = <<>>
    /\ unique_urls = <<>> /\ vi = 0 /\ link_verification = <<>>
    /\ data = NoData /\ results = <<>> /\ files = <<>> /\ requests = <<>>
    /\ clock = 0

Spec == Init /\ [][Next]_vars

(***************************************************************************)
(* What the runs are checked for.                                          *)
(***************************************************************************)
\* the YearResults built so far: those kept in results and the one returned
YearResults ==
    {results[y] : y \in DOMAIN results}
        \cup (IF data # NoData THEN {data} ELSE {})

\* the positions of the sections of a YearResult that have content
WithContent(r) == Sorted({k \in 1..Len(r.sections) : r.sections[k].content # <<>>})

\* the section event j of a YearResult comes from
SectionOfEvent(r, j) == r.sections[WithContent(r)[j]]

\* C3: with content_text the section's paragraphs joined by single spaces, a
\* description is the first 300 characters of content_text followed by "..."
\* (303 characters) when content_text is longer than 300 characters, and
\* content_text unchanged otherwise; no description is longer than 303.
C3_Description ==
    \A r \in YearResults :
        \A j \in 1..Min(Len(r.events), Len(WithContent(r))) :
            LET content_text == JoinSpace(SectionOfEvent(r, j).content)
                d == r.events[j].description
            IN  /\ Len(content_text) > DescLimit =>
                       /\ Len(d) = DescLimit + 3
                       /\ SubSeq(d, 1, DescLimit) = SubSeq(content_text, 1, DescLimit)
                       /\ SubSeq(d, DescLimit + 1, DescLimit + 3) = <<".", ".", ".">>
                /\ Len(content_text) <= DescLimit => d = content_text
                /\ Len(d) <= DescLimit + 3

\* two paragraphs that make 301 characters once joined: the description is
\* cut and has 303 characters
C3_Witness ==
    \E r \in YearResults :
        /\ Len(r.events) = 1 /\ Len(r.sections) = 1
        /\ Len(r.sections[1].content) = 2
        /\ Len(JoinSpace(r.sections[1].content)) = DescLimit + 1
        /\ Len(r.events[1].description) = DescLimit + 3

\* C6: the events of a YearResult correspond one-to-one, in order, to the
\* sections with non-empty content: each gives one event with its title, a
\* section without paragraph content gives none.
C6_Events ==
    \A r \in YearResults :
        /\ Len(r.events) = Cardinality({k \in 1..Len(r.sections) :
                                          Len(r.sections[k].content) > 0})
        /\ \A j \in 1..Len(r.events) :
               r.events[j].title = SectionOfEvent(r, j).title

\* three sections, the second a heading alone: two events, for the first
\* and the third
C6_Witness ==
    \E r \in YearResults :
        /\ Len(r.sections) = 3
        /\ r.sections[1].content # <<>>
        /\ r.sections[2].content = <<>>
        /\ r.sections[3].content # <<>>
        /\ Len(r.events) = 2
        /\ r.events[2].title = r.sections[3].title

\* C7: the links of an event are the subsequence, in extraction order, of
\* the extracted links whose text occurs case-insensitively in the event's
\* content_text or case-sensitively in the section title.
C7_Links ==
    \A r \in YearResults :
        \A j \in 1..Min(Len(r.events), Len(WithContent(r))) :
            LET sec == SectionOfEvent(r, j)
                content_text == JoinSpace(sec.content)
                attached ==
                    {k \in 1..Len(r.all_links) :
                        \/ Contains(Lower(content_text), Lower(r.all_links[k].text))
                        \/ Contains(sec.title, r.all_links[k].text)}
            IN  r.events[j].links = SelectIdx(r.all_links, attached)

\* the link GPT is attached to the section whose paragraph reads "the gpt
\* api" under the title Go; the link Go is attached to it by the title and
\* to the other section by its paragraph "go on", GPT is not
C7_Witness ==
    \E r \in YearResults :
        /\ Len(r.events) = 2 /\ Len(r.all_links) = 2
        /\ r.all_links[1].text = <<"G", "P", "T">>
        /\ r.all_links[2].text = <<"G", "o">>
        /\ r.events[1].title = <<"G", "o">>
        /\ r.sections[1].content = << <<"t", "h", "e", " ", "g", "p", "t", " ", "a", "p", "i">> >>
        /\ r.events[1].links = r.all_links
        /\ r.events[2].links = <<r.all_links[2]>>

\* the fetch of the post of year y returned content
FetchReturnedContent(y) ==
    LET answer == site[get_url_for_year(y)]
    IN  answer.ok /\ ~answer.text.empty

HasYearFile(y) == YearFile(y) \in DOMAIN files

InCombinedFile(y) ==
    CombinedFile \in DOMAIN files /\ y \in DOMAIN files[CombinedFile]

\* the GET requests issued so far
Gets == SelectIdx(requests, {k \in 1..Len(requests) : requests[k].method = "GET"})

\* the statement pc names can run: the run is not stopped by an error
CanStep ==
    \/ pc = "fetch" /\ yi \in 1..Len(argv.years)
                    /\ get_url_for_year(year) \in DOMAIN site
    \/ pc = "parse" /\ ~NotHtml(html)
    \/ pc = "extract" /\ soup.parsed /\ url # NoUrl
    \/ pc = "build"
    \/ pc = "verify"
    \/ pc = "verify_link" /\ vi < Len(unique_urls)
    \/ pc = "return"
    \/ pc = "returned" /\ yi \in 1..Len(argv.years)
    \/ pc = "save_combined"

\* C4: a year gets a per-year file and an entry in year_in_llms_all.json if
\* and only if its fetch returned content; a year whose fetch fails writes
\* nothing for that year and does not stop the years after it from being
\* processed, and the run ends normally, also when every year fails.
C4_Outputs ==
    /\ \A i \in 1..Len(argv.years) :
         LET y == argv.years[i]
         IN  /\ HasYearFile(y) => FetchReturnedContent(y)
             /\ InCombinedFile(y) => FetchReturnedContent(y)
             /\ (i < yi \/ pc \in {"save_combined", "done"})
                    => (HasYearFile(y) <=> FetchReturnedContent(y))
             /\ pc = "done" => (InCombinedFile(y) <=> FetchReturnedContent(y))
    /\ pc = "done" => Len(Gets) = Len(argv.years)
    /\ pc # "done" => CanStep

\* --all: the first post does not answer, the second does, the third is
\* empty; the run has ended with the file of the second year and the
\* combined file, which holds the second year alone
C4_Witness ==
    /\ pc = "done"
    /\ argv.years = AllYears
    /\ ~site[get_url_for_year(AllYears[1])].ok
    /\ FetchReturnedContent(AllYears[2])
    /\ ~FetchReturnedContent(AllYears[3])
    /\ DOMAIN files = {YearFile(AllYears[2]), CombinedFile}
    /\ DOMAIN files[CombinedFile] = {AllYears[2]}

\* the page of year y, once fetched with content
PageOf(y) == site[get_url_for_year(y)].text.nodes

\* the steps of one year, each followed by the next
StepOrder ==
    { <<"fetch", "parse">>, <<"fetch", "returned">>, <<"parse", "extract">>,
      <<"extract", "build">>, <<"build", "verify">>, <<"verify", "verify_link">>,
      <<"verify", "return">>, <<"verify_link", "return">>,
      <<"return", "returned">>, <<"returned", "fetch">>,
      <<"returned", "save_combined">>, <<"save_combined", "done">> }

\* one step of a run, as C9 describes it
C9_Step ==
    /\ pc' # pc => <<pc, pc'>> \in StepOrder
    /\ pc' = "verify_link" => argv.verify_links
    /\ (pc = "verify" /\ argv.verify_links /\ links # <<>>) => pc' = "verify_link"
    \* a year is persisted after its events are built, from what was built
    /\ \A y \in {argv.years[i] : i \in 1..Len(argv.years)} :
         (HasYearFile(y)' /\ ~HasYearFile(y)) =>
             /\ pc = "returned" /\ y = year /\ data # NoData
             /\ files'[YearFile(y)] = data
             /\ y \in DOMAIN results' /\ results'[y] = data
    \* the years are fetched in the order given, each after the one before
    \* it has been persisted or skipped
    /\ requests' # requests =>
         /\ Len(requests') = Len(requests) + 1
         /\ SubSeq(requests', 1, Len(requests)) = requests
    /\ (requests' # requests /\ requests'[Len(requests')].method = "GET") =>
         /\ pc = "fetch" /\ Len(Gets') = yi
         /\ requests'[Len(requests')].url = get_url_for_year(argv.years[yi])
         /\ \A i \in 1..(yi - 1) :
               HasYearFile(argv.years[i]) <=> FetchReturnedContent(argv.years[i])
    \* a YearResult holds what was computed from the page of its own year,
    \* and the YearResults of the years before it are left as they were
    /\ results' # results =>
         /\ DOMAIN results' = DOMAIN results \cup {year}
         /\ \A y \in DOMAIN results : y # year /\ results'[y] = results[y]
         /\ LET r == results'[year]
                 ls == extract_links(PageOf(year), get_url_for_year(year))
                 secs == extract_headings_and_sections(PageOf(year))
             IN  /\ r.year = year
                 /\ r.all_links = ls
                 /\ r.sections = secs
                 /\ r.events = BuildEvents(r.sections, r.all_links, year)
                 /\ ~r.link_verification.none =>
                       \A k \in 1..Len(r.link_verification.items) :
                          \E l \in 1..Len(r.all_links) :
                             r.all_links[l].url = r.link_verification.items[k].url

\* C9: for each year the steps Fetch, Parse, Extract, Build, Verify (only
\* when requested), Persist are taken in that order, a year is never
\* persisted before its events are built; the years are processed one at a
\* time in the order given, and nothing computed for one year ends up in
\* another year's YearResult.
C9_Order == [][C9_Step]_vars

\* --all with --verify-links has ended: three years persisted, links probed
C9_Witness ==
    /\ pc = "done"
    /\ argv.verify_links
    /\ DOMAIN results = {AllYears[i] : i \in 1..Len(AllYears)}
    /\ \E k \in 1..Len(requests) : requests[k].method = "HEAD"
    /\ results[AllYears[1]].sections # results[AllYears[2]].sections

\* the urls of the links of a YearResult
UrlsOf(r) == {r.all_links[k].url : k \in 1..Len(r.all_links)}

\* C10: when verification is requested, link_verification holds one entry
\* per distinct url of the extracted links, never two for the same url, at
\* most 50: min(50, number of distinct urls) entries; an entry is valid
\* exactly when a status code was obtained and is below 400, a transport
\* failure gives no status and valid false.  When it is not requested no
\* probe is issued and link_verification is absent.
C10_Verification ==
    /\ \A r \in YearResults :
         IF argv.verify_links
         THEN LET lv == r.link_verification.items
              IN  /\ ~r.link_verification.none
                  /\ Len(lv) <= VerifyCap
                  /\ Len(lv) = Min(VerifyCap, Cardinality(UrlsOf(r)))
                  /\ \A a, b \in 1..Len(lv) : a # b => lv[a].url # lv[b].url
                  /\ \A a \in 1..Len(lv) :
                       /\ lv[a].url \in UrlsOf(r)
                       /\ lv[a].valid <=>
                              (lv[a].status.has /\ lv[a].status.code < 400)
                       /\ HeadResponse(lv[a].url, net).raised =>
                              ~lv[a].status.has /\ ~lv[a].valid
                       /\ ~HeadResponse(lv[a].url, net).raised =>
                              /\ lv[a].status.has
                              /\ lv[a].status.code
                                    = HeadResponse(lv[a].url, net).status_code
         ELSE r.link_verification.none
    /\ ~argv.verify_links => \A k \in 1..Len(requests) : requests[k].method # "HEAD"
    /\ Len(link_verification) <= VerifyCap

\* a page with more than 50 distinct urls, one of them linked twice, on a
\* network where some probes fail and some answer 399, 400 and above: 50
\* entries, valid and not valid, with and without a status
C10_Witness ==
    \E r \in YearResults :
        /\ argv.verify_links
        /\ Len(r.all_links) > Cardinality(UrlsOf(r))
        /\ Cardinality(UrlsOf(r)) > VerifyCap
        /\ Len(r.link_verification.items) = VerifyCap
        /\ LET lv == r.link_verification.items
           IN  /\ \E a \in 1..VerifyCap : ~lv[a].status.has /\ ~lv[a].valid
               /\ \E b \in 1..VerifyCap :
                     lv[b].status.has /\ lv[b].status.code = 399 /\ lv[b].valid
               /\ \E c \in 1..VerifyCap :
                     lv[c].status.has /\ lv[c].status.code = 400 /\ ~lv[c].valid
               /\ \E d \in 1..VerifyCap :
                     lv[d].status.has /\ lv[d].status.code = 200 /\ lv[d].valid

====
